---- MODULE Spec2Model ----
(***************************************************************************)
(* Model of tk_utils/setup.py: the location guard (check_locs), the        *)
(* environment provisioner (create_venv), the dependency install           *)
(* (Setup.install_tk_utils_core), the subprocess wrapper (run) and main.   *)
(*                                                                         *)
(* A path is a sequence of components.  A text is a sequence of tokens     *)
(* (words and white-space tokens), so that strip() and the joins of the    *)
(* source are computed rather than assumed.  The filesystem is one         *)
(* variable shared by the processes; every process has its own             *)
(* interpreter state (sys.prefix, arguments, locals, output, exception).   *)
(*                                                                         *)
(* parse_args is modelled for command lines argparse accepts: it yields    *)
(* force in BOOLEAN and a branch that is None or a string.                 *)
(***************************************************************************)
EXTENDS Integers, Sequences, FiniteSets, TLC

\* ------------------------------------------------------------------ bounds
\* direct calls of create_venv inside one interpreter
MaxCalls == 2
\* the deepest project root mk_venv_opts is evaluated for
MaxDepth == 3

Procs == {"p1", "p2"}

\* ------------------------------------------------------------------- paths
joinpath(pth, x) == Append(pth, x)
name(pth) == pth[Len(pth)]
parent(pth) == SubSeq(pth, 1, Len(pth) - 1)

RECURSIVE Str(_)
\* str(pathlib.Path): the components joined by the separator, from the root
Str(pth) == IF pth = <<>> THEN "" ELSE Str(parent(pth)) \o "/" \o name(pth)

PROJECT_ROOT == <<"proj">>
THIS_DIR == joinpath(PROJECT_ROOT, "tk_utils")
THIS_FILE == joinpath(THIS_DIR, "setup.py")
CONFIG_TOML == joinpath(THIS_DIR, "config.toml")
RETRY_MSG == "To resolve this issue: 1. Restart PyCharm 2. retry with --force"

\* the environment directories the model's filesystem can hold
EnvDirs == {joinpath(PROJECT_ROOT, ".venv"), joinpath(PROJECT_ROOT, "venv")}

\* the entries of an environment's binary directory that the scripts look at
PipNames == {"pip", "pip3", "pip.exe", "pip3.exe", "activate"}
Kinds == {"absent", "file", "dir"}
\* what a candidate path can be: nothing, a regular file with or ("file")
\* without ("data") execute permission, or a directory
PipEntryKinds == {"absent", "file", "data", "dir"}
NoPips == [n \in PipNames |-> "absent"]

\* python's None
None == "None"

\* ------------------------------------------------------------------- texts
White == {" ", "\n"}

RECURSIVE lstrip(_)
lstrip(t) == IF t # <<>> /\ Head(t) \in White THEN lstrip(Tail(t)) ELSE t

RECURSIVE rstrip(_)
rstrip(t) ==
    IF t # <<>> /\ t[Len(t)] \in White THEN rstrip(SubSeq(t, 1, Len(t) - 1)) ELSE t

\* str.strip()
strip(t) == rstrip(lstrip(t))

RECURSIVE JoinNL(_)
\* '\n'.join(lines)
JoinNL(lines) ==
    IF Len(lines) <= 1 THEN lines
    ELSE <<Head(lines), "\n">> \o JoinNL(Tail(lines))

_mk_dirtree(init_note, config_note, setup_note) ==
    JoinNL(<< "<PYCHARM_PROJECT_FOLDER>/",
              "|__ " \o name(THIS_DIR) \o "/ <- Must be under PyCharm's project folder",
              "|   |__ __init__.py " \o init_note,
              "|   |__ " \o name(CONFIG_TOML) \o " " \o config_note,
              "|   |__ " \o name(THIS_FILE) \o " " \o setup_note >>) \o <<"\n">>

\* -------------------------------------------------------------- exceptions
Exc(type, msg) == [type |-> type, msg |-> msg]
NoErr == Exc("none", <<>>)

VARIABLES
    fs,          \* the filesystem: [idea, config, env]
    POSIX,       \* os.name == 'posix'
    project_root,\* the directory above the one that holds the module
    procs,       \* the terminals in which the script is launched
    pc,          \* per process: where the interpreter stands
    sys_prefix,  \* per process: sys.prefix
    args,        \* per process: the parsed arguments, or the call's arguments
    s,           \* per process: the Setup object
    frame,       \* per process: locals of create_venv / install / run
    spawned,     \* per process: the commands handed to subprocess.run
    out,         \* per process: what was printed
    err,         \* per process: the exception that ended the run or call
    ret,         \* per process: what create_venv returned
    status,      \* per process: exit status of the interpreter
    calls,       \* per process: direct calls so far in this interpreter
    prev,        \* per process: its previous direct call: arguments, what it
                 \* returned, and the kind of env_dir when it began
    fs0          \* per process: the filesystem when the run or call began

vars == <<fs, POSIX, project_root, procs, pc, sys_prefix, args, s, frame, spawned, out,
          err,
          ret, status, calls, prev, fs0>>

\* -------------------------------------------------------------- filesystem
\* a directory entry of EnvDirs: its kind, whether it holds pyvenv.cfg, the
\* kind of each package-manager candidate in its binary directory, and
\* whether the dependency is installed in it
EnvState(kind, cfg, pips, pkg) == [kind |-> kind, cfg |-> cfg, pips |-> pips, pkg |-> pkg]
AbsentEnv == EnvState("absent", FALSE, NoPips, FALSE)
FileEnv == EnvState("file", FALSE, NoPips, FALSE)

\* 'bin' if POSIX else 'Scripts'
BinName(posix) == IF posix THEN "bin" ELSE "Scripts"

\* kind of the entry at pth in filesystem f
Kind(f, posix, pth) ==
    IF pth = PROJECT_ROOT \/ pth = THIS_DIR THEN "dir"
    ELSE IF pth = joinpath(PROJECT_ROOT, ".idea") THEN f.idea
    ELSE IF pth = CONFIG_TOML THEN (IF f.config.kind = "absent" THEN "absent" ELSE "file")
    ELSE IF pth \in EnvDirs THEN f.env[pth].kind
    ELSE IF Len(pth) > 1 /\ parent(pth) \in EnvDirs /\ name(pth) = "pyvenv.cfg"
        THEN (IF f.env[parent(pth)].kind = "dir" /\ f.env[parent(pth)].cfg
              THEN "file" ELSE "absent")
    ELSE IF Len(pth) > 2 /\ parent(parent(pth)) \in EnvDirs
            /\ name(parent(pth)) = BinName(posix) /\ name(pth) \in PipNames
        THEN (IF f.env[parent(parent(pth))].kind = "dir"
              THEN (IF f.env[parent(parent(pth))].pips[name(pth)] = "data"
                    THEN "file" ELSE f.env[parent(parent(pth))].pips[name(pth)])
              ELSE "absent")
    ELSE "absent"

exists(f, posix, pth) == Kind(f, posix, pth) # "absent"
is_dir(f, posix, pth) == Kind(f, posix, pth) = "dir"
is_file(f, posix, pth) == Kind(f, posix, pth) = "file"

\* ----------------------------------------------------------- pure helpers
has_idea_folder(f, posix, pth) ==
    is_dir(f, posix, pth) /\ is_dir(f, posix, joinpath(pth, ".idea"))

MisplacedProjectError ==
    Exc("Exception",
        JoinNL(<<"tk_utils should be inside a PyCharm project folder:", "">>)
        \o <<"\n">> \o _mk_dirtree("", "", "<- This file"))

MissingConfigError ==
    Exc("FileNotFoundError",
        JoinNL(<<"Could not find '" \o name(CONFIG_TOML) \o "' file.", "">>)
        \o <<"\n">> \o _mk_dirtree("", "<- Missing file", "<- This file"))

\* check_locs with the two tests in the other order
check_locs_config_first(f, posix) ==
    IF ~exists(f, posix, CONFIG_TOML) THEN MissingConfigError
    ELSE IF ~has_idea_folder(f, posix, PROJECT_ROOT) THEN MisplacedProjectError
    ELSE NoErr

\* check_locs without the test for config.toml
check_locs_marker_only(f, posix) ==
    IF ~has_idea_folder(f, posix, PROJECT_ROOT) THEN MisplacedProjectError ELSE NoErr

\* check_locs: the exception it raises, NoErr when it returns
check_locs(f, posix) ==
    IF ~has_idea_folder(f, posix, PROJECT_ROOT) THEN MisplacedProjectError
    ELSE IF ~exists(f, posix, CONFIG_TOML) THEN MissingConfigError
    ELSE NoErr

EnvironmentConflictError(env_dir) ==
    Exc("FileExistsError",
        <<"Directory '" \o Str(env_dir) \o "' contains a venv but it is not active.",
          "\n", RETRY_MSG>>)

CorruptEnvironmentError(env_dir) ==
    Exc("FileExistsError",
        <<"Directory '" \o Str(env_dir) \o "' exists but does not contain a venv.",
          "\n", RETRY_MSG>>)

\* create_venv that does not raise on an inactive environment
create_venv_branch_no_conflict(f, posix, prefix, env_dir, force) ==
    IF prefix = Str(env_dir) THEN "noop"
    ELSE IF exists(f, posix, env_dir)
        THEN (IF force /\ name(env_dir) = ".venv" THEN "rmtree"
              ELSE IF exists(f, posix, joinpath(env_dir, "pyvenv.cfg")) THEN "create"
              ELSE "corrupt")
    ELSE "create"

\* create_venv that tests for the active environment after the directory
create_venv_branch_active_last(f, posix, prefix, env_dir, force) ==
    IF exists(f, posix, env_dir)
        THEN (IF force /\ name(env_dir) = ".venv" THEN "rmtree"
              ELSE IF prefix = Str(env_dir) THEN "noop"
              ELSE IF exists(f, posix, joinpath(env_dir, "pyvenv.cfg")) THEN "conflict"
              ELSE "corrupt")
    ELSE IF prefix = Str(env_dir) THEN "noop"
    ELSE "create"

\* create_venv with `force or name == '.venv'`
create_venv_branch_or(f, posix, prefix, env_dir, force) ==
    IF prefix = Str(env_dir) THEN "noop"
    ELSE IF exists(f, posix, env_dir)
        THEN (IF force \/ name(env_dir) = ".venv" THEN "rmtree"
              ELSE IF exists(f, posix, joinpath(env_dir, "pyvenv.cfg")) THEN "conflict"
              ELSE "corrupt")
    ELSE "create"

\* create_venv whose force ignores the directory's name
create_venv_branch_any_name(f, posix, prefix, env_dir, force) ==
    IF prefix = Str(env_dir) THEN "noop"
    ELSE IF exists(f, posix, env_dir)
        THEN (IF force THEN "rmtree"
              ELSE IF exists(f, posix, joinpath(env_dir, "pyvenv.cfg")) THEN "conflict"
              ELSE "corrupt")
    ELSE "create"

\* create_venv with the test for pyvenv.cfg inverted
create_venv_branch_cfg_inverted(f, posix, prefix, env_dir, force) ==
    IF prefix = Str(env_dir) THEN "noop"
    ELSE IF exists(f, posix, env_dir)
        THEN (IF force /\ name(env_dir) = ".venv" THEN "rmtree"
              ELSE IF ~exists(f, posix, joinpath(env_dir, "pyvenv.cfg")) THEN "conflict"
              ELSE "corrupt")
    ELSE "create"

\* create_venv that takes any environment holding pyvenv.cfg for the active one
create_venv_branch_cfg_is_active(f, posix, prefix, env_dir, force) ==
    IF prefix = Str(env_dir) \/ exists(f, posix, joinpath(env_dir, "pyvenv.cfg"))
    THEN "noop"
    ELSE IF exists(f, posix, env_dir)
        THEN (IF force /\ name(env_dir) = ".venv" THEN "rmtree" ELSE "corrupt")
    ELSE "create"

\* create_venv up to its first filesystem write or subprocess: what it does
\* next ("noop" returns False, "rmtree", "conflict", "corrupt", "create")
create_venv_branch(f, posix, prefix, env_dir, force) ==
    IF prefix = Str(env_dir) THEN "noop"
    ELSE IF exists(f, posix, env_dir)
        THEN (IF force /\ name(env_dir) = ".venv" THEN "rmtree"
              ELSE IF exists(f, posix, joinpath(env_dir, "pyvenv.cfg")) THEN "conflict"
              ELSE "corrupt")
    ELSE "create"

\* the command and the err_msg create_venv hands to run
venv_cmd(env_dir) == <<"sys.executable", "-m", "venv", Str(env_dir)>>
venv_err_msg(env_dir) == "Failed to create virtual environment at " \o Str(env_dir)

\* the candidate executable names, in order of priority
pip_names(posix) ==
    IF posix THEN <<"pip", "pip3">> ELSE <<"pip.exe", "pip3.exe", "pip", "pip3">>

\* mk_venv_opts that joins the candidates to the environment root
mk_venv_opts_flat(root, posix) ==
    LET venv_dir == joinpath(root, ".venv")
        venv_bin == joinpath(venv_dir, BinName(posix))
    IN  [root |-> venv_dir,
         bin |-> venv_bin,
         pips |-> [i \in 1..Len(pip_names(posix)) |->
                       joinpath(venv_dir, pip_names(posix)[i])]]

\* mk_venv_opts in a module whose PROJECT_ROOT is root
mk_venv_opts_at(root, posix) ==
    LET venv_dir == joinpath(root, ".venv")
        venv_bin == joinpath(venv_dir, BinName(posix))
    IN  [root |-> venv_dir,
         bin |-> venv_bin,
         pips |-> [i \in 1..Len(pip_names(posix)) |->
                       joinpath(venv_bin, pip_names(posix)[i])]]

\* mk_venv_opts
mk_venv_opts(posix) == mk_venv_opts_at(PROJECT_ROOT, posix)

RECURSIVE first_file(_, _, _)
first_file(f, posix, pips) ==
    IF pips = <<>> THEN <<>>
    ELSE IF exists(f, posix, Head(pips)) /\ is_file(f, posix, Head(pips)) THEN Head(pips)
    ELSE first_file(f, posix, Tail(pips))

\* get_pip that takes the first candidate that exists, file or not
RECURSIVE first_entry(_, _, _)
first_entry(f, posix, pips) ==
    IF pips = <<>> THEN <<>>
    ELSE IF exists(f, posix, Head(pips)) THEN Head(pips)
    ELSE first_entry(f, posix, Tail(pips))
get_pip_any_entry(f, posix, venv) == first_entry(f, posix, venv.pips)

\* Setup.get_pip: the first candidate that exists and is a file; <<>> is None
get_pip(f, posix, venv) == first_file(f, posix, venv.pips)

\* install_tk_utils_core without its test of pipexec
pip_missing_never(f, posix, pipexec) == FALSE

\* install_tk_utils_core: `pipexec is None or not pipexec.exists()`
pip_missing(f, posix, pipexec) == pipexec = <<>> \/ ~exists(f, posix, pipexec)

PackageManagerNotFoundError ==
    Exc("FileNotFoundError", <<"Cannot find pip executable inside venv">>)

\* Setup.tk_utils_core_url
tk_utils_core_url(config) ==
    "https://github.com/" \o config.user \o "/" \o config.repo \o ".git"

\* install_tk_utils_core that appends the flag after the target
install_cmd_flag_last(pipexec, url, force_reinstall, branch) ==
    LET tgt == IF branch # None /\ branch # "" THEN url \o "@" \o branch ELSE url
    IN  <<Str(pipexec), "install", "git+" \o tgt>>
        \o (IF force_reinstall THEN <<"--force-reinstall">> ELSE <<>>)

\* the command install_tk_utils_core builds
install_cmd(pipexec, url, force_reinstall, branch) ==
    LET tgt == IF branch # None /\ branch # "" THEN url \o "@" \o branch ELSE url
    IN  <<Str(pipexec), "install">>
        \o (IF force_reinstall THEN <<"--force-reinstall">> ELSE <<>>)
        \o <<"git+" \o tgt>>

\* run that loses the captured text when err_msg is given
run_error_msg_only_prefix(err_msg, stderr) ==
    IF err_msg # "" THEN <<err_msg>> ELSE strip(stderr)

\* run: the message of the RuntimeError raised on a nonzero exit
run_error_msg(err_msg, stderr) ==
    IF err_msg # "" THEN <<err_msg, "\n">> \o strip(stderr) ELSE strip(stderr)

CommandExecutionError(err_msg, stderr) == Exc("RuntimeError", run_error_msg(err_msg, stderr))

\* ------------------------------------------------- subprocess outcomes
\* what `python -m venv` installs into the binary directory
venv_pips(posix, old) ==
    [n \in PipNames |->
        IF n \in (IF posix THEN {"pip", "pip3"} ELSE {"pip.exe", "pip3.exe"}) \cup {"activate"}
        THEN "file" ELSE old[n]]

\* `python -m venv env_dir` exiting zero
VenvOk(f, posix, d) ==
    [f EXCEPT !.env[d] =
        EnvState("dir", TRUE, venv_pips(posix, @.pips), @.kind = "dir" /\ @.pkg)]

\* what a failed `python -m venv env_dir` can leave behind
Leftovers == {"nothing", "dir", "cfg"}
VenvFail(f, d, left) ==
    IF left = "nothing" \/ f.env[d].kind = "file" THEN f
    ELSE IF left = "dir"
        THEN (IF f.env[d].kind = "absent"
              THEN [f EXCEPT !.env[d] = EnvState("dir", FALSE, NoPips, FALSE)] ELSE f)
    ELSE [f EXCEPT !.env[d] = EnvState("dir", TRUE, @.pips, @.pkg)]

\* `pip install ...` exiting zero: the dependency is in the environment
PipOk(f, d) == IF f.env[d].kind = "dir" THEN [f EXCEPT !.env[d].pkg = TRUE] ELSE f

\* captured output of a subprocess
Stdouts == {<<>>, <<"ok", "\n">>}
Stderrs == {<<>>, <<"\n", "error:", " ", "boom", "\n">>}

\* ------------------------------------------------------------ inputs
Users == {"x"}
Repos == {"y"}
Branches == {None, "dev"}
Config(kind, user, repo) == [kind |-> kind, user |-> user, repo |-> repo]
Configs ==
    {Config(k, "", "") : k \in {"absent", "malformed", "nokeys"}}
    \cup {Config("valid", u, r) : u \in Users, r \in Repos}

\* the prefixes an interpreter can be launched with: the system's, or an
\* environment that is on disk
SysPrefixes(f) ==
    {"/usr"} \cup {Str(d) : d \in {e \in EnvDirs : f.env[e].kind = "dir" /\ f.env[e].cfg}}

\* force and branch are the command line's; force_reinstall is the argument of
\* install_tk_utils_core, True unless a caller passes it
NoArgs == [entry |-> "none", force |-> FALSE, branch |-> None, force_reinstall |-> TRUE]
NoSetup == [built |-> FALSE, config |-> Config("absent", "", ""),
            venv |-> [root |-> <<>>, bin |-> <<>>, pips |-> <<>>]]
\* r is the CompletedProcess of the last subprocess.run
Completed(returncode, stdout, stderr) ==
    [returncode |-> returncode, stdout |-> stdout, stderr |-> stderr]
NoFrame == [env_dir |-> <<>>, force |-> FALSE, cmds |-> <<>>, err_msg |-> "",
            caller |-> "none", r |-> Completed(0, <<>>, <<>>)]
NoPrev == [env_dir |-> <<>>, force |-> FALSE, ret |-> None, was |-> "none"]

\* print(x)
print(o, x) == o \o <<x, "\n">>

\* ------------------------------------------------------------ actions
\* an uncaught exception: the script exits with status 1; a direct call
\* hands the exception to its caller
Raise(p, e) ==
    /\ err' = [err EXCEPT ![p] = e]
    /\ pc' = [pc EXCEPT ![p] = IF args[p].entry = "main" THEN "exited" ELSE "idle"]
    /\ status' = [status EXCEPT ![p] = IF args[p].entry = "main" THEN 1 ELSE @]

\* `python tk_utils/setup.py [--force] [--branch B]`: main up to check_locs
LaunchScript(p, prefix, force, branch) ==
    /\ pc[p] \in {"off", "exited"}
    /\ prefix \in SysPrefixes(fs)
    /\ pc' = [pc EXCEPT ![p] = "check_locs"]
    /\ sys_prefix' = [sys_prefix EXCEPT ![p] = prefix]
    /\ args' = [args EXCEPT ![p] = [NoArgs EXCEPT !.entry = "main", !.force = force,
                                                  !.branch = branch]]
    /\ s' = [s EXCEPT ![p] = NoSetup]
    /\ frame' = [frame EXCEPT ![p] = NoFrame]
    /\ spawned' = [spawned EXCEPT ![p] = <<>>]
    /\ out' = [out EXCEPT ![p] = <<>>]
    /\ err' = [err EXCEPT ![p] = NoErr]
    /\ ret' = [ret EXCEPT ![p] = None]
    /\ status' = [status EXCEPT ![p] = -1]
    /\ calls' = [calls EXCEPT ![p] = 0]
    /\ prev' = [prev EXCEPT ![p] = NoPrev]
    /\ fs0' = [fs0 EXCEPT ![p] = fs]
    /\ UNCHANGED <<fs, POSIX, project_root, procs>>

\* an interpreter that imports the module and calls its functions
LaunchInterpreter(p, prefix) ==
    /\ pc[p] \in {"off", "exited"}
    /\ prefix \in SysPrefixes(fs)
    /\ pc' = [pc EXCEPT ![p] = "idle"]
    /\ sys_prefix' = [sys_prefix EXCEPT ![p] = prefix]
    /\ args' = [args EXCEPT ![p] = [NoArgs EXCEPT !.entry = "api"]]
    /\ s' = [s EXCEPT ![p] = NoSetup]
    /\ frame' = [frame EXCEPT ![p] = NoFrame]
    /\ spawned' = [spawned EXCEPT ![p] = <<>>]
    /\ out' = [out EXCEPT ![p] = <<>>]
    /\ err' = [err EXCEPT ![p] = NoErr]
    /\ ret' = [ret EXCEPT ![p] = None]
    /\ status' = [status EXCEPT ![p] = -1]
    /\ calls' = [calls EXCEPT ![p] = 0]
    /\ prev' = [prev EXCEPT ![p] = NoPrev]
    /\ fs0' = [fs0 EXCEPT ![p] = fs]
    /\ UNCHANGED <<fs, POSIX, project_root, procs>>

\* main that goes on to Setup() whatever check_locs finds
CheckLocs_skips(p) ==
    /\ pc[p] = "check_locs"
    /\ pc' = [pc EXCEPT ![p] = "Setup"]
    /\ UNCHANGED <<fs, POSIX, project_root, procs, sys_prefix, args, s, frame, spawned, out, err, ret,
                   status, calls, prev, fs0>>

\* main: check_locs()
CheckLocs(p) ==
    /\ pc[p] = "check_locs"
    /\ IF check_locs(fs, POSIX) = NoErr
       THEN /\ pc' = [pc EXCEPT ![p] = "Setup"]
            /\ UNCHANGED <<err, status>>
       ELSE Raise(p, check_locs(fs, POSIX))
    /\ UNCHANGED <<fs, POSIX, project_root, procs, sys_prefix, args, s, frame, spawned, out, ret,
                   calls, prev, fs0>>

\* main: s = Setup(), then s.setup_venv(force=args.force) up to create_venv
SetupInit(p) ==
    /\ pc[p] = "Setup"
    /\ IF ~is_file(fs, POSIX, CONFIG_TOML)
       THEN /\ Raise(p, Exc("FileNotFoundError", <<"open", Str(CONFIG_TOML)>>))
            /\ UNCHANGED <<s, frame>>
       ELSE IF fs.config.kind = "malformed"
       THEN /\ Raise(p, Exc("TOMLDecodeError", <<"tomllib.load">>))
            /\ UNCHANGED <<s, frame>>
       ELSE /\ s' = [s EXCEPT ![p] = [built |-> TRUE, config |-> fs.config,
                                      venv |-> mk_venv_opts(POSIX)]]
            /\ frame' = [frame EXCEPT ![p] =
                            [NoFrame EXCEPT !.env_dir = mk_venv_opts(POSIX).root,
                                            !.force = args[p].force]]
            /\ pc' = [pc EXCEPT ![p] = "create_venv"]
            /\ UNCHANGED <<err, status>>
    /\ UNCHANGED <<fs, POSIX, project_root, procs, sys_prefix, args, spawned, out, ret, calls,
                   prev, fs0>>

\* p runs the script, not calls from an interpreter
IsMainEntry(p) == args[p].entry = "main"
\* where control goes when create_venv returns
AfterCreateVenv(p) == IF IsMainEntry(p) THEN "install" ELSE "idle"

\* create_venv(env_dir, force) up to its first write or subprocess
CreateVenv(p) ==
    LET d == frame[p].env_dir
        b == create_venv_branch(fs, POSIX, sys_prefix[p], d, frame[p].force)
    IN  /\ pc[p] = "create_venv"
        /\ CASE b = "noop" ->
                  /\ out' = [out EXCEPT ![p] =
                                print(@, "Virtual environment already active: " \o Str(d))]
                  /\ ret' = [ret EXCEPT ![p] = "False"]
                  /\ pc' = [pc EXCEPT ![p] = AfterCreateVenv(p)]
                  /\ UNCHANGED <<err, status, frame>>
             [] b = "rmtree" ->
                  /\ out' = [out EXCEPT ![p] =
                                print(@, "Warning: Forcibly removing existing venv at "
                                         \o Str(d))]
                  /\ pc' = [pc EXCEPT ![p] = "rmtree"]
                  /\ UNCHANGED <<err, status, frame, ret>>
             [] b = "conflict" ->
                  /\ Raise(p, EnvironmentConflictError(d))
                  /\ UNCHANGED <<out, frame, ret>>
             [] b = "corrupt" ->
                  /\ Raise(p, CorruptEnvironmentError(d))
                  /\ UNCHANGED <<out, frame, ret>>
             [] OTHER ->
                  /\ out' = [out EXCEPT ![p] =
                                print(@, "Creating virtual environment at " \o Str(d))]
                  /\ frame' = [frame EXCEPT ![p].cmds = venv_cmd(d),
                                            ![p].err_msg = venv_err_msg(d),
                                            ![p].caller = "create_venv"]
                  /\ pc' = [pc EXCEPT ![p] = "run"]
                  /\ UNCHANGED <<err, status, ret>>
        /\ UNCHANGED <<fs, POSIX, project_root, procs, sys_prefix, args, s, spawned, calls,
                       prev, fs0>>

\* create_venv that warns but leaves the directory in place
Rmtree_keeps(p) ==
    LET d == frame[p].env_dir
    IN  /\ pc[p] = "rmtree"
        /\ out' = [out EXCEPT ![p] = print(@, "Creating virtual environment at " \o Str(d))]
        /\ frame' = [frame EXCEPT ![p].cmds = venv_cmd(d),
                                  ![p].err_msg = venv_err_msg(d),
                                  ![p].caller = "create_venv"]
        /\ pc' = [pc EXCEPT ![p] = "run"]
        /\ UNCHANGED <<fs, POSIX, project_root, procs, sys_prefix, args, s, spawned, err, ret, status,
                       calls, prev, fs0>>

\* create_venv: shutil.rmtree(env_dir), then up to run(...)
Rmtree(p) ==
    LET d == frame[p].env_dir
    IN  /\ pc[p] = "rmtree"
        /\ CASE fs.env[d].kind = "dir" ->
                  /\ fs' = [fs EXCEPT !.env[d] = AbsentEnv]
                  /\ out' = [out EXCEPT ![p] =
                                print(@, "Creating virtual environment at " \o Str(d))]
                  /\ frame' = [frame EXCEPT ![p].cmds = venv_cmd(d),
                                            ![p].err_msg = venv_err_msg(d),
                                            ![p].caller = "create_venv"]
                  /\ pc' = [pc EXCEPT ![p] = "run"]
                  /\ UNCHANGED <<err, status>>
             [] fs.env[d].kind = "file" ->
                  /\ Raise(p, Exc("NotADirectoryError", <<"rmtree", Str(d)>>))
                  /\ UNCHANGED <<fs, out, frame>>
             [] OTHER ->
                  /\ Raise(p, Exc("FileNotFoundError", <<"rmtree", Str(d)>>))
                  /\ UNCHANGED <<fs, out, frame>>
        /\ UNCHANGED <<POSIX, project_root, procs, sys_prefix, args, s, spawned, ret, calls,
                       prev, fs0>>

\* install_tk_utils_core that reinstalls only when --force was given
Install_follows_force(p) ==
    LET pipexec == get_pip(fs, POSIX, s[p].venv)
    IN  /\ pc[p] = "install"
        /\ IF pip_missing(fs, POSIX, pipexec)
           THEN /\ Raise(p, PackageManagerNotFoundError)
                /\ UNCHANGED frame
           ELSE IF s[p].config.kind # "valid"
           THEN /\ Raise(p, Exc("KeyError", <<"github">>))
                /\ UNCHANGED frame
           ELSE /\ frame' = [frame EXCEPT
                                ![p].cmds = install_cmd(pipexec, tk_utils_core_url(s[p].config),
                                                        args[p].force, args[p].branch),
                                ![p].err_msg = "",
                                ![p].caller = "install"]
                /\ pc' = [pc EXCEPT ![p] = "run"]
                /\ UNCHANGED <<err, status>>
        /\ UNCHANGED <<fs, POSIX, project_root, procs, sys_prefix, args, s, spawned, out, ret, calls,
                       prev, fs0>>

\* Setup.install_tk_utils_core(force_reinstall, branch) up to run(cmd); main
\* passes branch=args.branch and leaves force_reinstall at its default
Install(p) ==
    LET pipexec == get_pip(fs, POSIX, s[p].venv)
    IN  /\ pc[p] = "install"
        /\ IF pip_missing(fs, POSIX, pipexec)
           THEN /\ Raise(p, PackageManagerNotFoundError)
                /\ UNCHANGED frame
           ELSE IF s[p].config.kind # "valid"
           THEN /\ Raise(p, Exc("KeyError", <<"github">>))
                /\ UNCHANGED frame
           ELSE /\ frame' = [frame EXCEPT
                                ![p].cmds = install_cmd(pipexec, tk_utils_core_url(s[p].config),
                                                        args[p].force_reinstall, args[p].branch),
                                ![p].err_msg = "",
                                ![p].caller = "install"]
                /\ pc' = [pc EXCEPT ![p] = "run"]
                /\ UNCHANGED <<err, status>>
        /\ UNCHANGED <<fs, POSIX, project_root, procs, sys_prefix, args, s, spawned, out, ret, calls,
                       prev, fs0>>

\* the program of the command is on disk: the interpreter always, pip unless
\* the environment went away after get_pip found it
ProgramThere(p) ==
    frame[p].caller = "install"
    => \E i \in DOMAIN s[p].venv.pips :
          /\ Str(s[p].venv.pips[i]) = frame[p].cmds[1]
          /\ exists(fs, POSIX, s[p].venv.pips[i])

\* run that waits while another process runs the same command
RunSpawn_locked(p) ==
    /\ pc[p] = "run"
    /\ \A q \in procs \ {p} : ~(pc[q] = "wait" /\ frame[q].cmds = frame[p].cmds)
    /\ spawned' = [spawned EXCEPT ![p] = Append(@, frame[p].cmds)]
    /\ pc' = [pc EXCEPT ![p] = "wait"]
    /\ UNCHANGED <<fs, POSIX, project_root, procs, sys_prefix, args, s, frame, out, err,
                   ret, status, calls, prev, fs0>>

\* run: subprocess.run(cmds, ...) starts the command, or raises when the
\* program is not there
RunSpawn(p) ==
    /\ pc[p] = "run"
    /\ IF ProgramThere(p)
       THEN /\ spawned' = [spawned EXCEPT ![p] = Append(@, frame[p].cmds)]
            /\ pc' = [pc EXCEPT ![p] = "wait"]
            /\ UNCHANGED <<err, status>>
       ELSE /\ Raise(p, Exc("FileNotFoundError", <<"subprocess.run", frame[p].cmds[1]>>))
            /\ UNCHANGED spawned
    /\ UNCHANGED <<fs, POSIX, project_root, procs, sys_prefix, args, s, frame, out, ret,
                   calls, prev, fs0>>

\* run that puts the filesystem back as the call found it before it raises
RunFail_restores(p, stderr, left) ==
    /\ pc[p] = "wait"
    /\ fs' = IF frame[p].caller = "create_venv" THEN fs0[p] ELSE fs
    /\ frame[p].caller = "install" => left = "nothing"
    /\ frame' = [frame EXCEPT ![p].r = Completed(1, <<>>, stderr)]
    /\ Raise(p, CommandExecutionError(frame[p].err_msg, stderr))
    /\ UNCHANGED <<POSIX, project_root, procs, sys_prefix, args, s, spawned, out, ret, calls, prev, fs0>>

\* run: the command exits nonzero; RuntimeError, which nothing catches
RunFail(p, stderr, left) ==
    /\ pc[p] = "wait"
    /\ fs' = IF frame[p].caller = "create_venv"
             THEN VenvFail(fs, frame[p].env_dir, left) ELSE fs
    /\ frame[p].caller = "install" => left = "nothing"
    /\ frame' = [frame EXCEPT ![p].r = Completed(1, <<>>, stderr)]
    /\ Raise(p, CommandExecutionError(frame[p].err_msg, stderr))
    /\ UNCHANGED <<POSIX, project_root, procs, sys_prefix, args, s, spawned, out, ret, calls, prev, fs0>>

\* run: the command exits zero; its output is printed; control returns to
\* create_venv (which returns True) or, after the install, to main's status lines
RunOk(p, stdout) ==
    LET printed == out[p] \o stdout
    IN  /\ pc[p] = "wait"
        /\ IF frame[p].caller = "create_venv"
           THEN /\ fs.env[frame[p].env_dir].kind # "file"
                /\ fs' = VenvOk(fs, POSIX, frame[p].env_dir)
                /\ out' = [out EXCEPT ![p] =
                              print(printed, "Virtual environment created: "
                                             \o Str(frame[p].env_dir))]
                /\ ret' = [ret EXCEPT ![p] = "True"]
                /\ pc' = [pc EXCEPT ![p] = AfterCreateVenv(p)]
                /\ UNCHANGED status
           ELSE IF ~IsMainEntry(p)
           THEN /\ fs' = PipOk(fs, s[p].venv.root)
                /\ out' = [out EXCEPT ![p] = printed]
                /\ pc' = [pc EXCEPT ![p] = "idle"]
                /\ UNCHANGED <<ret, status>>
           ELSE /\ fs' = PipOk(fs, s[p].venv.root)
                /\ out' = [out EXCEPT ![p] =
                              print(print(print(printed,
                                    "--------------------------------"),
                                    "PLEASE RESTART PYCHARM NOW"),
                                    "--------------------------------")]
                /\ pc' = [pc EXCEPT ![p] = "exited"]
                /\ status' = [status EXCEPT ![p] = 0]
                /\ UNCHANGED ret
        /\ frame' = [frame EXCEPT ![p].r = Completed(0, stdout, <<>>)]
        /\ UNCHANGED <<POSIX, project_root, procs, sys_prefix, args, s, spawned, err, calls, prev, fs0>>

\* a direct call create_venv(env_dir, force) from the interpreter
CallCreateVenv(p, d, force) ==
    /\ pc[p] = "idle"
    /\ calls[p] < MaxCalls
    /\ calls' = [calls EXCEPT ![p] = @ + 1]
    /\ prev' = [prev EXCEPT ![p] =
                    [env_dir |-> frame[p].env_dir, force |-> frame[p].force,
                     ret |-> ret[p],
                     was |-> IF frame[p].env_dir \in EnvDirs
                             THEN fs0[p].env[frame[p].env_dir].kind ELSE "none"]]
    /\ frame' = [frame EXCEPT ![p] = [NoFrame EXCEPT !.env_dir = d, !.force = force]]
    /\ spawned' = [spawned EXCEPT ![p] = <<>>]
    /\ out' = [out EXCEPT ![p] = <<>>]
    /\ err' = [err EXCEPT ![p] = NoErr]
    /\ ret' = [ret EXCEPT ![p] = None]
    /\ fs0' = [fs0 EXCEPT ![p] = fs]
    /\ pc' = [pc EXCEPT ![p] = "create_venv"]
    /\ UNCHANGED <<fs, POSIX, project_root, procs, sys_prefix, args, s, status>>

\* a direct call s.install_tk_utils_core(force_reinstall, branch) on a Setup
\* object of the interpreter
CallInstall(p, force_reinstall, branch) ==
    /\ pc[p] = "idle"
    /\ s[p].built
    /\ args' = [args EXCEPT ![p].force_reinstall = force_reinstall,
                            ![p].branch = branch]
    /\ frame' = [frame EXCEPT ![p] = NoFrame]
    /\ spawned' = [spawned EXCEPT ![p] = <<>>]
    /\ out' = [out EXCEPT ![p] = <<>>]
    /\ err' = [err EXCEPT ![p] = NoErr]
    /\ ret' = [ret EXCEPT ![p] = None]
    /\ fs0' = [fs0 EXCEPT ![p] = fs]
    /\ pc' = [pc EXCEPT ![p] = "install"]
    /\ UNCHANGED <<fs, POSIX, project_root, procs, sys_prefix, s, status, calls, prev>>

\* ------------------------------------------------------------ specification
\* layouts of the binary directory the model starts from
PipLayouts(posix) == {NoPips, venv_pips(posix, NoPips)}

InitEnvs(posix) ==
    {AbsentEnv, FileEnv, EnvState("dir", FALSE, NoPips, FALSE)}
    \cup {EnvState("dir", TRUE, l, FALSE) : l \in PipLayouts(posix)}

OtherEnvs == {AbsentEnv, EnvState("dir", FALSE, NoPips, FALSE),
              EnvState("dir", TRUE, NoPips, FALSE)}

InitFs(posix) ==
    {[idea |-> i, config |-> c,
      env |-> [d \in EnvDirs |-> IF name(d) = ".venv" THEN e ELSE o]]
        : i \in Kinds, c \in Configs, e \in InitEnvs(posix), o \in OtherEnvs}

InitProcs(ps) ==
    /\ procs = ps
    /\ POSIX \in BOOLEAN
    /\ project_root = PROJECT_ROOT
    /\ fs \in InitFs(POSIX)
    /\ pc = [p \in Procs |-> "off"]
    /\ sys_prefix = [p \in Procs |-> "/usr"]
    /\ args = [p \in Procs |-> NoArgs]
    /\ s = [p \in Procs |-> NoSetup]
    /\ frame = [p \in Procs |-> NoFrame]
    /\ spawned = [p \in Procs |-> <<>>]
    /\ out = [p \in Procs |-> <<>>]
    /\ err = [p \in Procs |-> NoErr]
    /\ ret = [p \in Procs |-> None]
    /\ status = [p \in Procs |-> -1]
    /\ calls = [p \in Procs |-> 0]
    /\ prev = [p \in Procs |-> NoPrev]
    /\ fs0 = [p \in Procs |-> fs]

\* one terminal
Init == InitProcs({"p1"})

Next ==
    \/ \E p \in procs, f \in BOOLEAN, b \in Branches, x \in SysPrefixes(fs) :
          LaunchScript(p, x, f, b)
    \/ \E p \in procs, x \in SysPrefixes(fs) : LaunchInterpreter(p, x)
    \/ \E p \in procs : CheckLocs(p)
    \/ \E p \in procs : SetupInit(p)
    \/ \E p \in procs : CreateVenv(p)
    \/ \E p \in procs : Rmtree(p)
    \/ \E p \in procs : Install(p)
    \/ \E p \in procs : RunSpawn(p)
    \/ \E p \in procs, e \in Stderrs, l \in Leftovers : RunFail(p, e, l)
    \/ \E p \in procs, o \in Stdouts : RunOk(p, o)
    \/ \E p \in procs, d \in EnvDirs, f \in BOOLEAN : CallCreateVenv(p, d, f)

Spec == Init /\ [][Next]_vars

\* ------------------------------------ install_tk_utils_core from an interpreter
\* the configurations, branches and binary directories the calls are made with
AnyUsers == {"x", "octo"}
AnyRepos == {"y", "core"}
AnyBranches == {None, "", "dev"}
InstallConfigs ==
    {Config("nokeys", "", "")} \cup {Config("valid", u, r) : u \in AnyUsers, r \in AnyRepos}
\* execute permission is a POSIX notion; the .exe names are Windows'
AnyPips(posix) ==
    IF posix
    THEN {l \in [PipNames -> PipEntryKinds] :
            l["pip.exe"] = "absent" /\ l["pip3.exe"] = "absent" /\ l["activate"] = "file"}
    ELSE {l \in [PipNames -> PipEntryKinds \ {"data"}] : l["activate"] = "file"}
InstallFs(posix) ==
    {[idea |-> "dir", config |-> c,
      env |-> [d \in EnvDirs |-> IF name(d) = ".venv"
                                 THEN EnvState("dir", TRUE, l, FALSE) ELSE AbsentEnv]]
        : c \in InstallConfigs, l \in AnyPips(posix)}

\* an interpreter in which `s = Setup()` has been evaluated
InitInstall ==
    /\ procs = {"p1"}
    /\ POSIX \in BOOLEAN
    /\ project_root = PROJECT_ROOT
    /\ fs \in InstallFs(POSIX)
    /\ pc = [p \in Procs |-> IF p \in procs THEN "idle" ELSE "off"]
    /\ sys_prefix = [p \in Procs |-> "/usr"]
    /\ args = [p \in Procs |-> IF p \in procs THEN [NoArgs EXCEPT !.entry = "api"]
                                ELSE NoArgs]
    /\ s = [p \in Procs |-> IF p \in procs
                             THEN [built |-> TRUE, config |-> fs.config,
                                   venv |-> mk_venv_opts(POSIX)]
                             ELSE NoSetup]
    /\ frame = [p \in Procs |-> NoFrame]
    /\ spawned = [p \in Procs |-> <<>>]
    /\ out = [p \in Procs |-> <<>>]
    /\ err = [p \in Procs |-> NoErr]
    /\ ret = [p \in Procs |-> None]
    /\ status = [p \in Procs |-> -1]
    /\ calls = [p \in Procs |-> 0]
    /\ prev = [p \in Procs |-> NoPrev]
    /\ fs0 = [p \in Procs |-> fs]

NextInstall ==
    \/ \E p \in procs, f \in BOOLEAN, b \in AnyBranches : CallInstall(p, f, b)
    \/ \E p \in procs : Install(p)
    \/ \E p \in procs : RunSpawn(p)
    \/ \E p \in procs : RunFail(p, <<>>, "nothing")
    \/ \E p \in procs : RunOk(p, <<>>)

SpecInstall == InitInstall /\ [][NextInstall]_vars

\* ------------------------------------------------- the script of .setup/
SETUP_DIR == joinpath(PROJECT_ROOT, ".setup")
PROJECT_DIR == parent(SETUP_DIR)
VENV_DIR == joinpath(PROJECT_DIR, ".venv")

\* the two command lines setup_virtualenv hands to the shell
legacy_venv_cmd == "sys.executable" \o " -m venv " \o Str(VENV_DIR)
legacy_pip_exec(posix) == joinpath(joinpath(VENV_DIR, BinName(posix)), "pip")
legacy_pip_cmd(posix) ==
    Str(legacy_pip_exec(posix)) \o " install -r --upgrade "
    \o Str(joinpath(SETUP_DIR, "requirements.txt"))

\* main's test: an activate script under Scripts or under bin
has_activate(f, posix) ==
    \/ exists(f, posix, joinpath(joinpath(VENV_DIR, "Scripts"), "activate"))
    \/ exists(f, posix, joinpath(joinpath(VENV_DIR, "bin"), "activate"))

\* the shell finds the program of the install command line
legacy_pip_there(f, posix) ==
    \/ exists(f, posix, legacy_pip_exec(posix))
    \/ ~posix /\ exists(f, posix, joinpath(joinpath(VENV_DIR, BinName(posix)), "pip.exe"))

\* `python .setup/setup.py`
LegacyLaunch(p) ==
    /\ pc[p] \in {"off", "exited"}
    /\ pc' = [pc EXCEPT ![p] = "legacy_main"]
    /\ args' = [args EXCEPT ![p] = [NoArgs EXCEPT !.entry = "legacy"]]
    /\ frame' = [frame EXCEPT ![p] = NoFrame]
    /\ spawned' = [spawned EXCEPT ![p] = <<>>]
    /\ out' = [out EXCEPT ![p] = <<>>]
    /\ err' = [err EXCEPT ![p] = NoErr]
    /\ status' = [status EXCEPT ![p] = -1]
    /\ fs0' = [fs0 EXCEPT ![p] = fs]
    /\ UNCHANGED <<fs, POSIX, project_root, procs, sys_prefix, s, ret, calls, prev>>

\* main
LegacyMain(p) ==
    /\ pc[p] = "legacy_main"
    /\ IF has_activate(fs, POSIX)
       THEN /\ pc' = [pc EXCEPT ![p] = "exited"]
            /\ status' = [status EXCEPT ![p] = 0]
       ELSE /\ pc' = [pc EXCEPT ![p] = "setup_virtualenv"]
            /\ UNCHANGED status
    /\ UNCHANGED <<fs, POSIX, project_root, procs, sys_prefix, args, s, frame, spawned, out,
                   err, ret, calls, prev, fs0>>

\* setup_virtualenv up to the end of its first `if`: the creation command is
\* handed to the shell when VENV_DIR does not exist
LegacySetup(p) ==
    /\ pc[p] = "setup_virtualenv"
    /\ IF ~exists(fs, POSIX, VENV_DIR)
       THEN /\ out' = [out EXCEPT ![p] = print(@, "Creating virtual environment (.venv)...")]
            /\ frame' = [frame EXCEPT ![p].cmds = legacy_venv_cmd,
                                      ![p].caller = "legacy_create"]
            /\ spawned' = [spawned EXCEPT ![p] = Append(@, legacy_venv_cmd)]
            /\ pc' = [pc EXCEPT ![p] = "run_command"]
       ELSE /\ pc' = [pc EXCEPT ![p] = "legacy_install"]
            /\ UNCHANGED <<out, frame, spawned>>
    /\ UNCHANGED <<fs, POSIX, project_root, procs, sys_prefix, args, s, err, ret, status,
                   calls, prev, fs0>>

\* setup_virtualenv from its second `if`: the install command is handed to
\* the shell
LegacyInstall(p) ==
    /\ pc[p] = "legacy_install"
    /\ out' = [out EXCEPT ![p] = print(print(@, "Virtual environment is set up."),
                                       "Installing dependencies...")]
    /\ frame' = [frame EXCEPT ![p].cmds = legacy_pip_cmd(POSIX),
                              ![p].caller = "legacy_install"]
    /\ spawned' = [spawned EXCEPT ![p] = Append(@, legacy_pip_cmd(POSIX))]
    /\ pc' = [pc EXCEPT ![p] = "run_command"]
    /\ UNCHANGED <<fs, POSIX, project_root, procs, sys_prefix, args, s, err, ret, status,
                   calls, prev, fs0>>

\* run_command that reports the failure and returns to its caller
LegacyCommandFail_goes_on(p, left) ==
    /\ pc[p] = "run_command"
    /\ fs' = IF frame[p].caller = "legacy_create" THEN VenvFail(fs, VENV_DIR, left) ELSE fs
    /\ frame[p].caller = "legacy_install" => left = "nothing"
    /\ frame' = [frame EXCEPT ![p].r = Completed(1, <<>>, <<>>)]
    /\ out' = [out EXCEPT ![p] = print(@, "Error: Command failed.")]
    /\ IF frame[p].caller = "legacy_create"
       THEN pc' = [pc EXCEPT ![p] = "legacy_install"] /\ UNCHANGED status
       ELSE pc' = [pc EXCEPT ![p] = "exited"] /\ status' = [status EXCEPT ![p] = 0]
    /\ UNCHANGED <<POSIX, project_root, procs, sys_prefix, args, s, spawned, err, ret,
                   calls, prev, fs0>>

\* run_command: the command exits nonzero; sys.exit(1)
LegacyCommandFail(p, left) ==
    /\ pc[p] = "run_command"
    /\ fs' = IF frame[p].caller = "legacy_create" THEN VenvFail(fs, VENV_DIR, left) ELSE fs
    /\ frame[p].caller = "legacy_install" => left = "nothing"
    /\ frame' = [frame EXCEPT ![p].r = Completed(1, <<>>, <<>>)]
    /\ out' = [out EXCEPT ![p] = print(@, "Error: Command failed.")]
    /\ pc' = [pc EXCEPT ![p] = "exited"]
    /\ status' = [status EXCEPT ![p] = 1]
    /\ UNCHANGED <<POSIX, project_root, procs, sys_prefix, args, s, spawned, err, ret,
                   calls, prev, fs0>>

\* run_command: the command exits zero; after the creation setup_virtualenv
\* goes on, after the install it prints how to activate and main returns
LegacyCommandOk(p) ==
    /\ pc[p] = "run_command"
    /\ frame' = [frame EXCEPT ![p].r = Completed(0, <<>>, <<>>)]
    /\ IF frame[p].caller = "legacy_create"
       THEN /\ fs.env[VENV_DIR].kind # "file"
            /\ fs' = VenvOk(fs, POSIX, VENV_DIR)
            /\ pc' = [pc EXCEPT ![p] = "legacy_install"]
            /\ UNCHANGED <<out, status>>
       ELSE /\ legacy_pip_there(fs, POSIX)
            /\ fs' = PipOk(fs, VENV_DIR)
            /\ out' = [out EXCEPT ![p] = print(@, "Setup complete! Activate the environment using:")]
            /\ pc' = [pc EXCEPT ![p] = "exited"]
            /\ status' = [status EXCEPT ![p] = 0]
    /\ UNCHANGED <<POSIX, project_root, procs, sys_prefix, args, s, spawned, err, ret,
                   calls, prev, fs0>>

\* what can be at VENV_DIR when the script is launched
LegacyEnvs(posix) ==
    {AbsentEnv, FileEnv, EnvState("dir", FALSE, NoPips, FALSE)}
    \cup {EnvState("dir", TRUE, [NoPips EXCEPT !["pip"] = k, !["activate"] = a], g)
            : k \in {"absent", "file"}, a \in {"absent", "file"}, g \in BOOLEAN}
    \cup {EnvState("dir", TRUE, venv_pips(posix, NoPips), g) : g \in BOOLEAN}

InitLegacy ==
    /\ procs = {"p1"}
    /\ POSIX \in BOOLEAN
    /\ project_root = PROJECT_ROOT
    /\ fs \in {[idea |-> "dir", config |-> Config("valid", "x", "y"),
                env |-> [d \in EnvDirs |-> IF d = VENV_DIR THEN e ELSE AbsentEnv]]
                  : e \in LegacyEnvs(POSIX)}
    /\ pc = [p \in Procs |-> "off"]
    /\ sys_prefix = [p \in Procs |-> "/usr"]
    /\ args = [p \in Procs |-> NoArgs]
    /\ s = [p \in Procs |-> NoSetup]
    /\ frame = [p \in Procs |-> NoFrame]
    /\ spawned = [p \in Procs |-> <<>>]
    /\ out = [p \in Procs |-> <<>>]
    /\ err = [p \in Procs |-> NoErr]
    /\ ret = [p \in Procs |-> None]
    /\ status = [p \in Procs |-> -1]
    /\ calls = [p \in Procs |-> 0]
    /\ prev = [p \in Procs |-> NoPrev]
    /\ fs0 = [p \in Procs |-> fs]

NextLegacy ==
    \/ \E p \in procs : LegacyLaunch(p)
    \/ \E p \in procs : LegacyMain(p)
    \/ \E p \in procs : LegacySetup(p)
    \/ \E p \in procs : LegacyInstall(p)
    \/ \E p \in procs, l \in Leftovers : LegacyCommandFail(p, l)
    \/ \E p \in procs : LegacyCommandOk(p)

SpecLegacy == InitLegacy /\ [][NextLegacy]_vars

\* ------------------------------------------------------------ two terminals
\* the script launched in two terminals of one project, the environment
\* absent or complete
InitRace ==
    /\ procs = Procs
    /\ POSIX \in BOOLEAN
    /\ project_root = PROJECT_ROOT
    /\ fs \in {[idea |-> "dir", config |-> Config("valid", "x", "y"),
                env |-> [d \in EnvDirs |-> IF name(d) = ".venv" THEN e ELSE AbsentEnv]]
                  : e \in {AbsentEnv,
                           EnvState("dir", TRUE, venv_pips(POSIX, NoPips), FALSE)}}
    /\ pc = [p \in Procs |-> "off"]
    /\ sys_prefix = [p \in Procs |-> "/usr"]
    /\ args = [p \in Procs |-> NoArgs]
    /\ s = [p \in Procs |-> NoSetup]
    /\ frame = [p \in Procs |-> NoFrame]
    /\ spawned = [p \in Procs |-> <<>>]
    /\ out = [p \in Procs |-> <<>>]
    /\ err = [p \in Procs |-> NoErr]
    /\ ret = [p \in Procs |-> None]
    /\ status = [p \in Procs |-> -1]
    /\ calls = [p \in Procs |-> 0]
    /\ prev = [p \in Procs |-> NoPrev]
    /\ fs0 = [p \in Procs |-> fs]

NextRace ==
    \/ \E p \in procs, f \in BOOLEAN : LaunchScript(p, "/usr", f, None)
    \/ \E p \in procs : CheckLocs(p)
    \/ \E p \in procs : SetupInit(p)
    \/ \E p \in procs : CreateVenv(p)
    \/ \E p \in procs : Rmtree(p)
    \/ \E p \in procs : Install(p)
    \/ \E p \in procs : RunSpawn(p)
    \/ \E p \in procs, l \in Leftovers : RunFail(p, <<>>, l)
    \/ \E p \in procs : RunOk(p, <<>>)

SpecRace == InitRace /\ [][NextRace]_vars

\* ------------------------------------------- mk_venv_opts from an interpreter
\* the places the project can be: paths of up to MaxDepth components
Components == {"proj", "home", ".venv", "bin"}
Roots == UNION {[1..n -> Components] : n \in 1..MaxDepth}

\* a direct call mk_venv_opts(); the result is kept where Setup keeps it
MkVenvOpts(p) ==
    /\ pc[p] = "idle"
    /\ s[p].venv = NoSetup.venv
    /\ s' = [s EXCEPT ![p].venv = mk_venv_opts_at(project_root, POSIX)]
    /\ UNCHANGED <<fs, POSIX, project_root, procs, pc, sys_prefix, args, frame, spawned,
                   out, err, ret, status, calls, prev, fs0>>

\* an interpreter that has imported the module from under any of the roots
InitDescriptor ==
    /\ procs = {"p1"}
    /\ POSIX \in BOOLEAN
    /\ project_root \in Roots
    /\ fs \in {[idea |-> "dir", config |-> Config("valid", "x", "y"),
                env |-> [d \in EnvDirs |-> e]] : e \in {AbsentEnv, FileEnv}}
    /\ pc = [p \in Procs |-> IF p \in procs THEN "idle" ELSE "off"]
    /\ sys_prefix = [p \in Procs |-> "/usr"]
    /\ args = [p \in Procs |-> IF p \in procs THEN [NoArgs EXCEPT !.entry = "api"]
                                ELSE NoArgs]
    /\ s = [p \in Procs |-> NoSetup]
    /\ frame = [p \in Procs |-> NoFrame]
    /\ spawned = [p \in Procs |-> <<>>]
    /\ out = [p \in Procs |-> <<>>]
    /\ err = [p \in Procs |-> NoErr]
    /\ ret = [p \in Procs |-> None]
    /\ status = [p \in Procs |-> -1]
    /\ calls = [p \in Procs |-> 0]
    /\ prev = [p \in Procs |-> NoPrev]
    /\ fs0 = [p \in Procs |-> fs]

NextDescriptor == \E p \in procs : MkVenvOpts(p)

SpecDescriptor == InitDescriptor /\ [][NextDescriptor]_vars

\* ================================================================ claims
Active(p, d) == sys_prefix[p] = Str(d)
IsMain(p) == args[p].entry = "main"
\* create_venv has made its tests in the current run or call of p
Decided(p) == frame[p].env_dir # <<>> /\ pc[p] # "create_venv"
InCreateVenv(p) ==
    \/ pc[p] \in {"create_venv", "rmtree"}
    \/ pc[p] \in {"run", "wait"} /\ frame[p].caller = "create_venv"
StatusPrinted(p) == \E i \in 1..Len(out[p]) : out[p][i] = "PLEASE RESTART PYCHARM NOW"
Occurrences(sq, x) == Cardinality({i \in 1..Len(sq) : sq[i] = x})
\* the state at the start of the run or call had a non-active directory with
\* its marker at env_dir, and force is scoped to it
Forced(p) ==
    LET d == frame[p].env_dir
    IN  /\ frame[p].force /\ name(d) = ".venv" /\ ~Active(p, d)
        /\ fs0[p].env[d].kind = "dir"

\* C1: a run of main on a project root without the .idea directory ends in
\* check_locs with the misplaced-project error and status 1, whether or not
\* config.toml exists: no Setup object, no subprocess, no output, and the
\* filesystem as it was
C1_MissingMarkerStopsAtGuard ==
    \A p \in procs :
        (IsMain(p) /\ pc[p] # "check_locs"
         /\ ~has_idea_folder(fs0[p], POSIX, PROJECT_ROOT))
        => /\ pc[p] = "exited" /\ status[p] = 1
           /\ err[p] = MisplacedProjectError
           /\ ~s[p].built /\ frame[p] = NoFrame
           /\ spawned[p] = <<>> /\ out[p] = <<>>
           /\ fs = fs0[p]

C1_Witness ==
    \E p \in procs :
        /\ IsMain(p) /\ pc[p] = "exited" /\ err[p] = MisplacedProjectError
        /\ fs.idea = "absent" /\ fs.config.kind = "absent"

\* C2: create_venv without force on a directory that holds pyvenv.cfg and is
\* not the active environment raises the environment-conflict error, starts no
\* subprocess and leaves the filesystem as it was; a run of main then ends with
\* status 1 and no install
C2_InactiveEnvConflicts ==
    \A p \in procs :
        LET d == frame[p].env_dir
        IN  (Decided(p) /\ ~frame[p].force /\ ~Active(p, d)
             /\ fs0[p].env[d].kind = "dir" /\ fs0[p].env[d].cfg)
            => /\ err[p] = EnvironmentConflictError(d)
               /\ ret[p] = None
               /\ spawned[p] = <<>>
               /\ fs = fs0[p]
               /\ IF IsMain(p)
                  THEN pc[p] = "exited" /\ status[p] = 1 /\ ~StatusPrinted(p)
                  ELSE pc[p] = "idle"

C2_Witness ==
    \E p \in procs :
        /\ IsMain(p) /\ pc[p] = "exited" /\ ~args[p].force
        /\ err[p] = EnvironmentConflictError(joinpath(PROJECT_ROOT, ".venv"))
        /\ sys_prefix[p] = "/usr"

\* C3: the step of create_venv taken while env_dir is the active environment
\* returns False for either value of force, raises nothing, starts no
\* subprocess and changes nothing on the filesystem
C3_ActiveIsNoop ==
    [][\A p \in procs :
          (pc[p] = "create_venv" /\ pc'[p] # pc[p] /\ Active(p, frame[p].env_dir))
          => /\ fs' = fs
             /\ spawned'[p] = spawned[p]
             /\ err'[p] = NoErr
             /\ ret'[p] = "False"
             /\ pc'[p] = AfterCreateVenv(p)]_vars

\* a second call in sequence, with force, on the active environment
C3_Witness ==
    \E p \in procs :
        /\ pc[p] = "idle" /\ calls[p] >= 2
        /\ Active(p, frame[p].env_dir) /\ frame[p].force
        /\ prev[p].env_dir = frame[p].env_dir /\ prev[p].ret = "False"
        /\ ret[p] = "False" /\ err[p] = NoErr /\ spawned[p] = <<>> /\ fs = fs0[p]

\* C4 as stated: the only step of create_venv that writes to the filesystem
\* is the creation from the Absent state
C4_OnlyAbsentCreateWrites ==
    [][\A p \in procs :
          (InCreateVenv(p) /\ pc'[p] # pc[p] /\ fs' # fs)
          => pc[p] = "wait" /\ fs0[p].env[frame[p].env_dir].kind = "absent"]_vars

\* C4 amended: create_venv writes nothing in the Active state, and nothing on
\* an existing directory unless force is set, the directory is named '.venv'
\* and it is not active; its writing steps are the creation at an absent path
\* and, under that force, the removal of the directory before the creation.
\* Only env_dir is written.
C4_WritesOnlyCreateOrForcedRemove ==
    [][\A p \in procs :
          LET d == frame[p].env_dir
          IN  (InCreateVenv(p) /\ pc'[p] # pc[p] /\ fs' # fs)
              => /\ \/ /\ pc[p] = "wait" /\ fs.env[d].kind = "absent"
                       /\ fs0[p].env[d].kind = "absent" \/ Forced(p)
                    \/ /\ pc[p] = "rmtree" /\ Forced(p)
                       /\ fs'.env[d] = AbsentEnv
                 /\ ~Active(p, d)
                 /\ fs'.idea = fs.idea /\ fs'.config = fs.config
                 /\ \A e \in EnvDirs \ {d} : fs'.env[e] = fs.env[e]]_vars

\* a provisioned, non-active .venv has been removed under force and its
\* creation is running
C4_Witness ==
    \E p \in procs :
        LET d == frame[p].env_dir
        IN  /\ pc[p] = "wait" /\ frame[p].caller = "create_venv" /\ Forced(p)
            /\ fs0[p].env[d].cfg /\ fs.env[d] = AbsentEnv

\* C5: an existing entry at an environment path disappears only in the rmtree
\* of a create_venv call with force set on a directory named '.venv' that is
\* not the active environment
C5_DestroyOnlyForcedDotVenv ==
    [][\A d \in EnvDirs :
          (fs.env[d].kind # "absent" /\ fs'.env[d].kind # fs.env[d].kind)
          => \E p \in procs :
                /\ pc[p] = "rmtree" /\ frame[p].env_dir = d
                /\ frame[p].force /\ name(d) = ".venv" /\ ~Active(p, d)]_vars

\* force on a directory of another name: the call raised, the directory stays
C5_Witness ==
    \E p \in procs :
        LET d == frame[p].env_dir
        IN  /\ pc[p] = "idle" /\ calls[p] >= 1 /\ frame[p].force
            /\ d # <<>> /\ name(d) # ".venv"
            /\ err[p].type = "FileExistsError"
            /\ fs.env[d] = fs0[p].env[d] /\ fs.env[d].kind = "dir"

VenvSpawns(p) == Occurrences(spawned[p], venv_cmd(frame[p].env_dir))

\* C6: with force on a non-active directory named '.venv' that holds
\* pyvenv.cfg, create_venv removes the directory before it starts the creation
\* command, starts that command once, and when the command exits zero returns
\* True with the directory present, marked and not active
C6_ForceRemovesThenCreatesOnce ==
    \A p \in procs :
        LET d == frame[p].env_dir
        IN  (Decided(p) /\ Forced(p) /\ fs0[p].env[d].cfg)
            => /\ pc[p] = "rmtree" => spawned[p] = <<>> /\ fs = fs0[p]
               /\ pc[p] = "run" /\ frame[p].caller = "create_venv"
                    => spawned[p] = <<>> /\ fs.env[d] = AbsentEnv
               /\ pc[p] = "wait" /\ frame[p].caller = "create_venv"
                    => spawned[p] = <<venv_cmd(d)>> /\ fs.env[d] = AbsentEnv
               /\ VenvSpawns(p) <= 1
               /\ ret[p] \in {None, "True"}
               /\ (~InCreateVenv(p) /\ spawned[p] # <<>>)
                    => /\ spawned[p][1] = venv_cmd(d)
                       /\ (frame[p].caller = "create_venv" /\ frame[p].r.returncode = 0)
                            => ret[p] = "True"
                       /\ (frame[p].caller = "create_venv" /\ frame[p].r.returncode # 0)
                            => ret[p] = None
               /\ ret[p] = "True"
                    => /\ VenvSpawns(p) = 1
                       /\ fs.env[d].kind = "dir" /\ fs.env[d].cfg /\ ~Active(p, d)

C6_Witness ==
    \E p \in procs :
        LET d == frame[p].env_dir
        IN  /\ Decided(p) /\ Forced(p) /\ fs0[p].env[d].cfg
            /\ ret[p] = "True" /\ pc[p] \in {"idle", "install"}
            /\ fs.env[d].kind = "dir" /\ fs.env[d].cfg

\* C7: on a non-active directory without pyvenv.cfg create_venv raises the
\* corrupt-environment error, starts no subprocess and leaves the directory
\* untouched, for either value of force, except that with force on a
\* directory named '.venv' it does not raise that error
C7_UnmarkedDirIsCorrupt ==
    \A p \in procs :
        LET d == frame[p].env_dir
        IN  (Decided(p) /\ ~Active(p, d)
             /\ fs0[p].env[d].kind = "dir" /\ ~fs0[p].env[d].cfg)
            => IF frame[p].force /\ name(d) = ".venv"
               THEN err[p] # CorruptEnvironmentError(d)
               ELSE /\ err[p] = CorruptEnvironmentError(d)
                    /\ ret[p] = None
                    /\ spawned[p] = <<>>
                    /\ fs = fs0[p]
                    /\ IsMain(p) => pc[p] = "exited" /\ status[p] = 1

\* force does not help on an unmarked directory of another name
C7_Witness ==
    \E p \in procs :
        LET d == frame[p].env_dir
        IN  /\ Decided(p) /\ frame[p].force /\ name(d) # ".venv"
            /\ err[p] = CorruptEnvironmentError(d)
            /\ ~fs.env[d].cfg /\ fs.env[d].kind = "dir"

NoCandidate(p) ==
    \A i \in DOMAIN s[p].venv.pips : ~exists(fs, POSIX, s[p].venv.pips[i])

\* C8: when no candidate executable exists in the environment's binary
\* directory, the step of install_tk_utils_core raises the
\* package-manager-not-found error without starting a subprocess; the run ends
\* with status 1 and the status message is not printed
C8_NoPipNoSubprocess ==
    [][\A p \in procs :
          (pc[p] = "install" /\ pc'[p] # pc[p] /\ NoCandidate(p))
          => /\ err'[p] = PackageManagerNotFoundError
             /\ spawned'[p] = spawned[p]
             /\ fs' = fs
             /\ pc'[p] = "exited" /\ status'[p] = 1
             /\ out'[p] = out[p] /\ ~StatusPrinted(p)]_vars

C8_Witness ==
    \E p \in procs :
        /\ IsMain(p) /\ pc[p] = "exited" /\ status[p] = 1
        /\ err[p] = PackageManagerNotFoundError
        /\ s[p].built /\ NoCandidate(p) /\ ~StatusPrinted(p)

\* C9: a run of main on a project root with the .idea directory and without
\* config.toml ends in check_locs with the missing-config error and status 1:
\* the configuration is not loaded, no subprocess is started and the
\* filesystem is as it was
C9_MissingConfigStopsAtGuard ==
    \A p \in procs :
        (IsMain(p) /\ pc[p] # "check_locs"
         /\ has_idea_folder(fs0[p], POSIX, PROJECT_ROOT)
         /\ ~exists(fs0[p], POSIX, CONFIG_TOML))
        => /\ pc[p] = "exited" /\ status[p] = 1
           /\ err[p] = MissingConfigError
           /\ ~s[p].built /\ frame[p] = NoFrame
           /\ spawned[p] = <<>>
           /\ fs = fs0[p]

C9_Witness ==
    \E p \in procs :
        /\ IsMain(p) /\ pc[p] = "exited" /\ err[p] = MissingConfigError
        /\ fs.idea = "dir" /\ fs.config.kind = "absent"
        /\ fs.env[joinpath(PROJECT_ROOT, ".venv")].kind = "dir"

IsVenvCmd(c) == Len(c) = 4 /\ c[2] = "-m" /\ c[3] = "venv"
IsInstallCmd(c) == Len(c) >= 3 /\ c[2] = "install"

\* C11: a run of main keeps the order guard, ensure-environment, install,
\* status lines: a creation command is started only when check_locs passed, an
\* install command only when create_venv has returned and nothing was raised
\* before it, the status lines are printed only when the install command
\* exited zero, and each of the two commands is started at most once, the
\* creation first
C11_MainKeepsStepOrder ==
    \A p \in procs :
        IsMain(p) =>
            LET sp == spawned[p]
                installs == {i \in 1..Len(sp) : IsInstallCmd(sp[i])}
                creations == {i \in 1..Len(sp) : IsVenvCmd(sp[i])}
            IN  /\ Cardinality(installs) <= 1 /\ Cardinality(creations) <= 1
                /\ installs \cup creations = 1..Len(sp)
                /\ \A i \in creations, j \in installs : i < j
                /\ sp # <<>> => check_locs(fs0[p], POSIX) = NoErr /\ s[p].built
                /\ installs # {} =>
                      /\ ret[p] \in {"True", "False"}
                      /\ frame[p].caller = "install"
                      /\ pc[p] = "wait" => err[p] = NoErr
                /\ StatusPrinted(p) =>
                      /\ installs # {}
                      /\ frame[p].caller = "install" /\ frame[p].r.returncode = 0
                      /\ pc[p] = "exited" /\ status[p] = 0 /\ err[p] = NoErr

C11_Witness ==
    \E p \in procs :
        /\ IsMain(p) /\ pc[p] = "exited" /\ status[p] = 0 /\ StatusPrinted(p)
        /\ Len(spawned[p]) = 2
        /\ IsVenvCmd(spawned[p][1]) /\ IsInstallCmd(spawned[p][2])

\* the previous call of p in this interpreter created env_dir from nothing and
\* returned True, and the current call is for the same directory
JustCreated(p) ==
    /\ prev[p].ret = "True" /\ prev[p].was = "absent"
    /\ prev[p].env_dir = frame[p].env_dir
Warned(p) ==
    /\ out[p] # <<>>
    /\ out[p][1] = "Warning: Forcibly removing existing venv at " \o Str(frame[p].env_dir)
Refused(p) ==
    /\ err[p] = EnvironmentConflictError(frame[p].env_dir)
    /\ ret[p] = None /\ spawned[p] = <<>> /\ fs = fs0[p] /\ pc[p] = "idle"
\* a call that started from no directory and returned True
CreatedFromAbsent(p) ==
    /\ Decided(p) /\ ret[p] = "True"
    /\ fs0[p].env[frame[p].env_dir].kind = "absent"

\* C12 as stated: after create_venv created env_dir from nothing, a second
\* call in the same interpreter is refused with the environment-conflict error
\* when force is not set, and with force set removes the directory and
\* creates it again
C12_SecondCallForceRecreates ==
    \A p \in procs :
        (Decided(p) /\ JustCreated(p))
        => IF frame[p].force THEN Warned(p) /\ err[p] # EnvironmentConflictError(frame[p].env_dir)
           ELSE Refused(p)

\* C12: create_venv that starts from no directory and returns True has started
\* the creation command once and leaves a directory with pyvenv.cfg that is
\* not the interpreter's active environment; a second call for it in the same
\* interpreter is refused with the environment-conflict error when force is
\* not set or the directory is not named '.venv', and with force on a
\* directory named '.venv' removes the directory and creates it again
C12_CreatedIsInactive ==
    \A p \in procs :
        LET d == frame[p].env_dir
        IN  /\ CreatedFromAbsent(p)
              => /\ spawned[p] # <<>> /\ spawned[p][1] = venv_cmd(d)
                 /\ VenvSpawns(p) = 1
                 /\ fs.env[d].kind = "dir" /\ fs.env[d].cfg
                 /\ ~Active(p, d)
            /\ (Decided(p) /\ JustCreated(p))
              => /\ ~Active(p, d)
                 /\ fs0[p].env[d].kind = "dir" /\ fs0[p].env[d].cfg
                 /\ IF frame[p].force /\ name(d) = ".venv"
                    THEN /\ Warned(p)
                         /\ err[p].type # "FileExistsError"
                         /\ pc[p] = "rmtree" => fs = fs0[p]
                         /\ (pc[p] \in {"run", "wait"}) => fs.env[d] = AbsentEnv
                         /\ ret[p] = "True"
                              => /\ spawned[p] = <<venv_cmd(d)>>
                                 /\ fs.env[d].kind = "dir" /\ fs.env[d].cfg
                    ELSE Refused(p)

C12_Witness ==
    \E p \in procs :
        /\ Decided(p) /\ JustCreated(p) /\ ~frame[p].force /\ Refused(p)
        /\ name(frame[p].env_dir) = ".venv"

\* the creation command of the current run or call of p exited nonzero
FailedCreation(p) == frame[p].caller = "create_venv" /\ frame[p].r.returncode # 0
\* what a failed creation can leave where there was no directory
LeftBehind ==
    {AbsentEnv, EnvState("dir", FALSE, NoPips, FALSE), EnvState("dir", TRUE, NoPips, FALSE)}
\* the previous call of p in this interpreter started from no directory at
\* env_dir and raised, and the current call is for the same directory
AfterFailedCall(p) ==
    /\ prev[p].ret = None /\ prev[p].was = "absent"
    /\ prev[p].env_dir = frame[p].env_dir

\* C17: when the creation command exits nonzero create_venv raises the
\* RuntimeError of run and does nothing more: no further command is started,
\* the directory is in one of the states the command can leave, and a
\* directory removed under force has lost its executables and its installed
\* package; a following call without force that finds a left-over directory
\* raises FileExistsError and leaves it as it is
C17_NoRollback ==
    \A p \in procs :
        LET d == frame[p].env_dir
        IN  /\ FailedCreation(p)
              => /\ err[p] = CommandExecutionError(venv_err_msg(d), frame[p].r.stderr)
                 /\ ret[p] = None
                 /\ spawned[p] = <<venv_cmd(d)>>
                 /\ pc[p] = (IF IsMain(p) THEN "exited" ELSE "idle")
                 /\ (Forced(p) \/ fs0[p].env[d].kind = "absent") => fs.env[d] \in LeftBehind
            /\ (Decided(p) /\ AfterFailedCall(p) /\ ~frame[p].force /\ ~Active(p, d)
                 /\ fs0[p].env[d].kind = "dir")
              => /\ fs0[p].env[d] \in LeftBehind
                 /\ err[p] = (IF fs0[p].env[d].cfg THEN EnvironmentConflictError(d)
                              ELSE CorruptEnvironmentError(d))
                 /\ ret[p] = None /\ spawned[p] = <<>>
                 /\ fs = fs0[p]

C17_Witness ==
    \E p \in procs :
        LET d == frame[p].env_dir
        IN  /\ Decided(p) /\ AfterFailedCall(p) /\ ~frame[p].force
            /\ fs.env[d] = EnvState("dir", FALSE, NoPips, FALSE)
            /\ err[p] = CorruptEnvironmentError(d)

\* create_venv has returned in the run of main and install_tk_utils_core has
\* made its tests
PastInstallTests(p) ==
    /\ IsMain(p) /\ ret[p] \in {"True", "False"} /\ pc[p] # "install"
\* no candidate of the descriptor is a file on disk
NoPipFile(p) ==
    \A i \in DOMAIN s[p].venv.pips : ~is_file(fs, POSIX, s[p].venv.pips[i])
\* the install command has been started with the flag
InstallStarted(p) ==
    \E i \in 1..Len(spawned[p]) :
        IsInstallCmd(spawned[p][i]) /\ spawned[p][i][3] = "--force-reinstall"

\* C18 as stated: every run of main that passed check_locs and whose
\* create_venv returned ends having started the install command with
\* '--force-reinstall'
C18_AlwaysInstalls ==
    \A p \in procs :
        (PastInstallTests(p) /\ pc[p] = "exited") => InstallStarted(p)

\* C18: a run of main whose create_venv returned, True or False, and in which
\* install_tk_utils_core finds a pip candidate and the two keys of the
\* configuration, builds the install command with '--force-reinstall' and
\* starts it, whatever --force is; without a candidate or without the keys it
\* raises and starts no install
C18_InstallsWhenPipAndKeys ==
    \A p \in procs :
        PastInstallTests(p) =>
            IF NoPipFile(p)
            THEN err[p] = PackageManagerNotFoundError /\ ~InstallStarted(p)
            ELSE IF s[p].config.kind # "valid"
            THEN err[p].type = "KeyError" /\ ~InstallStarted(p)
            ELSE /\ frame[p].caller = "install"
                 /\ IsInstallCmd(frame[p].cmds)
                 /\ frame[p].cmds[3] = "--force-reinstall"
                 /\ pc[p] \in {"run", "wait", "exited"}
                 /\ pc[p] # "run" => InstallStarted(p)

C18_Witness ==
    \E p \in procs :
        /\ PastInstallTests(p) /\ ret[p] = "False" /\ ~args[p].force
        /\ Active(p, frame[p].env_dir)
        /\ pc[p] = "exited" /\ status[p] = 0 /\ InstallStarted(p)

\* install_tk_utils_core has built its command in the current call of p
CmdBuilt(p) == pc[p] \in {"run", "wait"} /\ frame[p].caller = "install"
\* the candidate paths in the order of the platform
Candidates(posix) ==
    LET bin == <<"proj", ".venv", IF posix THEN "bin" ELSE "Scripts">>
    IN  IF posix THEN <<bin \o <<"pip">>, bin \o <<"pip3">> >>
        ELSE <<bin \o <<"pip.exe">>, bin \o <<"pip3.exe">>, bin \o <<"pip">>,
               bin \o <<"pip3">> >>
\* what is on disk at a candidate path
Entry(pth) == fs.env[<<"proj", ".venv">>].pips[name(pth)]

\* C14: the command install_tk_utils_core hands to run is the path of a pip
\* candidate, 'install', then '--force-reinstall' exactly when force_reinstall
\* is set, then as last and only target 'git+https://github.com/<user>/<repo>.git',
\* with '@<branch>' appended exactly when a non-empty branch is given; it is
\* the command that is started
C14_InstallCommandShape ==
    \A p \in procs :
        CmdBuilt(p) =>
            LET c == frame[p].cmds
                url == "git+https://github.com/" \o s[p].config.user \o "/"
                       \o s[p].config.repo \o ".git"
                target == IF args[p].branch \in {None, ""} THEN url
                          ELSE url \o "@" \o args[p].branch
            IN  /\ \E i \in DOMAIN Candidates(POSIX) : c[1] = Str(Candidates(POSIX)[i])
                /\ c[2] = "install"
                /\ Len(c) = (IF args[p].force_reinstall THEN 4 ELSE 3)
                /\ args[p].force_reinstall <=> c[3] = "--force-reinstall"
                /\ c[Len(c)] = target
                /\ \A i \in 1..(Len(c) - 1) : c[i] # target
                /\ pc[p] = "wait" => spawned[p] = <<c>>

C14_Witness ==
    \E p \in procs :
        /\ CmdBuilt(p) /\ pc[p] = "wait" /\ ~args[p].force_reinstall
        /\ spawned[p] = << <<"/proj/.venv/bin/pip3", "install",
                              "git+https://github.com/octo/core.git@dev">> >>

\* install_tk_utils_core has looked for pip in the current call of p
PipLookedUp(p) == pc[p] # "install" /\ (err[p] # NoErr \/ frame[p].caller = "install")
\* candidate i passes test T and no earlier candidate does
FirstThat(T(_), i) ==
    /\ T(Entry(Candidates(POSIX)[i]))
    /\ \A j \in 1..(i - 1) : ~T(Entry(Candidates(POSIX)[j]))
\* what the call shows of get_pip: the path it hands to run, or the error
\* raised when it returned None
PipFollows(T(_), p) ==
    IF \E i \in DOMAIN Candidates(POSIX) : FirstThat(T, i)
    THEN /\ err[p] # PackageManagerNotFoundError
         /\ CmdBuilt(p) =>
               \E i \in DOMAIN Candidates(POSIX) :
                   FirstThat(T, i) /\ frame[p].cmds[1] = Str(Candidates(POSIX)[i])
    ELSE err[p] = PackageManagerNotFoundError /\ spawned[p] = <<>>
IsExecutableFile(e) == e = "file"
IsRegularFile(e) == e \in {"file", "data"}

IsSubpath(anc, pth) == Len(pth) > Len(anc) /\ SubSeq(pth, 1, Len(anc)) = anc
\* mk_venv_opts has been evaluated by p
HasDescriptor(p) == s[p].venv # NoSetup.venv

\* C16: for every project root and both platforms the descriptor of
\* mk_venv_opts has the binary directory as a direct child of the environment
\* root and every candidate as a direct child of the binary directory, so all
\* of them lie below the environment root, itself the child '.venv' of the
\* project root; the descriptor is the one function of the project root and
\* the platform written out here, whatever the filesystem holds
C16_DescriptorUnderRoot ==
    \A p \in procs :
        HasDescriptor(p) =>
            LET v == s[p].venv
                names == IF POSIX THEN <<"pip", "pip3">>
                         ELSE <<"pip.exe", "pip3.exe", "pip", "pip3">>
            IN  /\ parent(v.root) = project_root /\ name(v.root) = ".venv"
                /\ parent(v.bin) = v.root
                /\ IsSubpath(v.root, v.bin)
                /\ \A i \in DOMAIN v.pips :
                      parent(v.pips[i]) = v.bin /\ IsSubpath(v.root, v.pips[i])
                /\ v = [root |-> project_root \o <<".venv">>,
                        bin |-> project_root \o <<".venv", IF POSIX THEN "bin" ELSE "Scripts">>,
                        pips |-> [i \in 1..Len(names) |->
                                    project_root
                                    \o <<".venv", IF POSIX THEN "bin" ELSE "Scripts", names[i]>>]]

C16_Witness ==
    \E p \in procs :
        /\ HasDescriptor(p) /\ ~POSIX
        /\ project_root = <<"home", ".venv", "bin">>
        /\ s[p].venv.pips[4] = <<"home", ".venv", "bin", ".venv", "Scripts", "pip3">>

\* p is about to start, or has started, the creation command for d
Creating(p, d) ==
    /\ pc[p] \in {"run", "wait"} /\ frame[p].caller = "create_venv"
    /\ frame[p].env_dir = d

\* C13: nothing coordinates two runs: whatever the other process is doing, a
\* process that stands before the tests of create_venv, before its rmtree or
\* before subprocess.run can take that step, so no lock and no atomic
\* create-if-absent keeps both from creating the same directory
C13_NoStepWaitsForTheOther ==
    \A p \in procs :
        /\ pc[p] = "create_venv" => ENABLED CreateVenv(p)
        /\ pc[p] = "rmtree" => ENABLED Rmtree(p)
        /\ pc[p] = "run" => ENABLED RunSpawn(p)

\* both processes found the directory absent and both have the creation
\* command for it running
C13_Witness ==
    LET d == joinpath(PROJECT_ROOT, ".venv")
    IN  /\ \A p \in Procs :
              /\ pc[p] = "wait" /\ Creating(p, d) /\ ~frame[p].force
              /\ fs0[p].env[d].kind = "absent"
              /\ spawned[p] = <<venv_cmd(d)>>
        /\ fs.env[d].kind = "absent"

\* p runs the script of .setup/ and main has made its test
LegacyPastMain(p) == args[p].entry = "legacy" /\ pc[p] # "legacy_main"
\* there was an activate script under Scripts or bin when p was launched
ActivateAtLaunch(p) ==
    \E b \in {"Scripts", "bin"} :
        Kind(fs0[p], POSIX, <<"proj", ".venv", b, "activate">>) # "absent"
IsLegacyCreate(c) == c = "sys.executable -m venv /proj/.venv"
IsLegacyInstall(c) ==
    c = (IF POSIX THEN "/proj/.venv/bin/pip" ELSE "/proj/.venv/Scripts/pip")
        \o " install -r --upgrade /proj/.setup/requirements.txt"

\* C19: the script of .setup/ starts no command, and ends with status 0,
\* when an activate script exists under Scripts or bin; otherwise it starts
\* the creation command only when .venv did not exist, as the first command,
\* and always goes on to start the install command; a command that exits
\* nonzero ends the process with status 1 and nothing is started after it
C19_LegacySteps ==
    \A p \in procs :
        LegacyPastMain(p) =>
            LET sp == spawned[p]
                n == Len(sp)
                venv_absent == fs0[p].env[<<"proj", ".venv">>].kind = "absent"
            IN  IF ActivateAtLaunch(p)
                THEN /\ sp = <<>> /\ pc[p] = "exited" /\ status[p] = 0
                     /\ fs = fs0[p] /\ out[p] = <<>>
                ELSE /\ \A i \in 1..n : IsLegacyCreate(sp[i]) => i = 1 /\ venv_absent
                     /\ \A i \in 1..n : IsLegacyInstall(sp[i]) <=> i = (IF venv_absent THEN 2 ELSE 1)
                     /\ n <= (IF venv_absent THEN 2 ELSE 1)
                     /\ (n >= 1 /\ venv_absent) => IsLegacyCreate(sp[1])
                     /\ pc[p] = "legacy_install" =>
                           n = (IF venv_absent THEN 1 ELSE 0) /\ frame[p].r.returncode = 0
                     /\ frame[p].r.returncode # 0 =>
                           /\ pc[p] = "exited" /\ status[p] = 1
                           /\ sp[n] = frame[p].cmds
                           /\ frame[p].caller = "legacy_create" => n = 1
                     /\ pc[p] = "exited" =>
                           \/ status[p] = 1 /\ frame[p].r.returncode # 0
                           \/ status[p] = 0 /\ n >= 1 /\ IsLegacyInstall(sp[n])

C19_Witness ==
    \E p \in procs :
        /\ LegacyPastMain(p) /\ ~ActivateAtLaunch(p)
        /\ pc[p] = "exited" /\ status[p] = 1
        /\ Len(spawned[p]) = 2 /\ IsLegacyCreate(spawned[p][1])
        /\ IsLegacyInstall(spawned[p][2])

====
